---- MODULE Spec2Model ----
(***************************************************************************)
(* A model of the HR-analytics service: the application-volume predictor   *)
(* and the resume matcher of ml_models.py, the text helpers of utils.py    *)
(* and the request handlers and in-memory dashboard store of app.py.       *)
(*                                                                         *)
(* Numbers.  The predictor multiplies Python floats.  Every multiplier is  *)
(* a decimal, so the running value is kept exactly as a decimal            *)
(* [num, scale] = num / 10^scale.  A float product differs from the exact  *)
(* one by a relative error near 1e-15, which changes round() only where    *)
(* the exact value is a tie k + 1/2: there round() may go either way, and  *)
(* the model allows both outcomes.                                         *)
(*                                                                         *)
(* Text.  A text is a sequence of one-character strings, so that lower(),  *)
(* split(), the substring test and the regular expressions of clean_text   *)
(* are computed character by character.                                    *)
(***************************************************************************)
EXTENDS Integers, Sequences, FiniteSets, TLC

VARIABLES
    pc,              \* "call": the arguments are chosen; "done": the result is there
    op,              \* the function called: "predict", "match", "clean" or "none"
    features,        \* predict: the job features (a dict; keys may be missing)
    jitter,          \* predict: the value random.uniform(0.9, 1.1) returns, in hundredths
    resume_text,     \* match: the resume text (Str or None)
    jd_text,         \* match: the job-description text (Str or None)
    text,            \* clean_text: the raw text
    result,          \* the value returned (or the exception raised)
    dashboard_data,  \* app.py: the in-memory store
    request,         \* app.py: the last request received
    response,        \* app.py: the last response sent
    requests,        \* app.py: requests handled so far
    ok_predicts,     \* app.py: predict-applications requests answered with success
    ok_matches,      \* app.py: match-resume requests answered with success
    installed        \* app.py: whether PyPDF2 and python-docx can be imported

vars == <<pc, op, features, jitter, resume_text, jd_text, text, result,
          dashboard_data, request, response, requests, ok_predicts, ok_matches, installed>>

coreVars == <<pc, op, features, jitter, resume_text, jd_text, text, result>>
appVars == <<dashboard_data, request, response, requests, ok_predicts, ok_matches, installed>>

-----------------------------------------------------------------------------
(* Bounds of the model *)

\* the longest skills list of a job posting
MaxSkills == 6

-----------------------------------------------------------------------------
(* Python values *)

\* dict.get(key, default)
DictGet(d, key, default) == IF key \in DOMAIN d THEN d[key] ELSE default

Min(a, b) == IF a <= b THEN a ELSE b

RECURSIVE Pow10(_)
Pow10(n) == IF n = 0 THEN 1 ELSE 10 * Pow10(n - 1)

\* A decimal num / 10^scale, kept without trailing zeros.
RECURSIVE Norm(_)
Norm(x) ==
    IF x.scale > 0 /\ x.num % 10 = 0
    THEN Norm([num |-> x.num \div 10, scale |-> x.scale - 1])
    ELSE x

Dec(n, s) == Norm([num |-> n, scale |-> s])

\* float * float, exactly
Mul(a, b) == Norm([num |-> a.num * b.num, scale |-> a.scale + b.scale])

\* int(round(x)): the nearest integer; at an exact tie the float that the
\* code holds may lie on either side, so both neighbours are outcomes.
py_round(x) ==
    LET p == Pow10(x.scale)
        fl == x.num \div p
        fr == x.num % p
    IN  IF 2 * fr > p THEN {fl + 1}
        ELSE IF 2 * fr < p THEN {fl}
        ELSE {fl, fl + 1}

-----------------------------------------------------------------------------
(* ml_models.py: ApplicationPredictor *)

base_applications == 100

\* the multiplier tables, in tenths
experience_multipliers == ("Entry" :> 15) @@ ("Mid" :> 10) @@ ("Senior" :> 7)

job_type_multipliers == ("Full-time" :> 12) @@ ("Part-time" :> 8) @@ ("Contract" :> 9)

company_size_multipliers ==
    ("1-10" :> 6) @@ ("11-50" :> 8) @@ ("51-200" :> 10) @@ ("201-500" :> 12) @@
    ("501-1000" :> 13) @@ ("1001-5000" :> 14) @@ ("5000+" :> 15)

\* (variant: table.get(key, 0))
LookupZeroDefault(table, key) == Dec(DictGet(table, key, 0), 1)

\* table.get(key, 1.0)
Lookup(table, key) == Dec(DictGet(table, key, 10), 1)

experience_factor(f) == Lookup(experience_multipliers, DictGet(f, "experience_level", "Mid"))

\* (variant: the job type looked up in the experience table)
JobTypeFactorWrongTable(f) ==
    Lookup(experience_multipliers, DictGet(f, "job_type", "Full-time"))

job_type_factor(f) == Lookup(job_type_multipliers, DictGet(f, "job_type", "Full-time"))

company_size_factor(f) == Lookup(company_size_multipliers, DictGet(f, "company_size", "100-500"))

remote_factor(f) == IF DictGet(f, "remote_option", FALSE) THEN Dec(13, 1) ELSE Dec(1, 0)

salary_factor(f) ==
    LET max_salary == DictGet(f, "max_salary", 0)
    IN  IF max_salary > 150000 THEN Dec(12, 1)
        ELSE IF max_salary > 100000 THEN Dec(11, 1)
        ELSE IF max_salary < 50000 THEN Dec(8, 1)
        ELSE Dec(1, 0)

\* (variant: the tier for fewer than 2 skills is left out)
SkillsFactorNoBoost(f) ==
    LET skills == DictGet(f, "skills", <<>>)
    IN  IF Len(skills) > 5 THEN Dec(9, 1) ELSE Dec(1, 0)

skills_factor(f) ==
    LET skills == DictGet(f, "skills", <<>>)
    IN  IF Len(skills) > 5 THEN Dec(9, 1)
        ELSE IF Len(skills) < 2 THEN Dec(11, 1)
        ELSE Dec(1, 0)

\* The factors predicted_count is multiplied by, in the order of the code;
\* u is random.uniform(0.9, 1.1) in hundredths.
Factors(f, u) ==
    << experience_factor(f), job_type_factor(f), company_size_factor(f),
       remote_factor(f), salary_factor(f), skills_factor(f), Dec(u, 2) >>

RECURSIVE MulAll(_, _)
MulAll(x, fs) == IF fs = <<>> THEN x ELSE MulAll(Mul(x, Head(fs)), Tail(fs))

\* predicted_count before it is rounded
raw_count(f, u) == MulAll(Dec(base_applications, 0), Factors(f, u))

\* (variant: <= for < in the thresholds)
CategoryShifted(count) ==
    IF count <= 100 THEN "Low" ELSE IF count <= 200 THEN "Medium" ELSE "High"

count_category(count) ==
    IF count < 100 THEN "Low" ELSE IF count < 200 THEN "Medium" ELSE "High"

count_difficulty(count) ==
    IF count < 100 THEN "Hard" ELSE IF count < 200 THEN "Medium" ELSE "Easy"

generate_explanation(count, category, f) ==
    LET exp_level == DictGet(f, "experience_level", "Mid")
        remote == DictGet(f, "remote_option", FALSE)
    IN  CASE category = "Low" ->
               "This position may receive fewer applications due to specific requirements. Consider broadening criteria or increasing visibility."
          [] category = "Medium" ->
               "Expected moderate interest. This is typical for " \o exp_level
                   \o "-level positions in this industry."
          [] category = "High" ->
               "High application volume expected! "
                   \o (IF remote THEN "Remote work option" ELSE "Competitive salary")
                   \o " makes this position attractive."
          [] OTHER -> "Application volume prediction based on job characteristics."

prediction_of(count, f) ==
    [ count |-> count,
      category |-> count_category(count),
      difficulty |-> count_difficulty(count),
      explanation |-> generate_explanation(count, count_category(count), f) ]

\* ApplicationPredictor.predict: the results it can return for features f
\* when random.uniform returns u / 100
predict(f, u) == { prediction_of(c, f) : c \in py_round(raw_count(f, u)) }

-----------------------------------------------------------------------------
(* Python strings: a text is a sequence of one-character strings *)

\* A str argument, or None
Str(s) == [none |-> FALSE, chars |-> s]

None == [none |-> TRUE, chars |-> <<>>]

\* str.isspace, for the whitespace the model's texts hold
Whitespace == {" ", "\t", "\n"}

LowerOf ==
    ("A" :> "a") @@ ("B" :> "b") @@ ("C" :> "c") @@ ("D" :> "d") @@ ("E" :> "e") @@ ("F" :> "f") @@ ("G" :> "g") @@ ("H" :> "h") @@ ("I" :> "i") @@ ("J" :> "j") @@ ("K" :> "k") @@ ("L" :> "l") @@ ("M" :> "m") @@ ("N" :> "n") @@ ("O" :> "o") @@ ("P" :> "p") @@ ("Q" :> "q") @@ ("R" :> "r") @@ ("S" :> "s") @@ ("T" :> "t") @@ ("U" :> "u") @@ ("V" :> "v") @@ ("W" :> "w") @@ ("X" :> "x") @@ ("Y" :> "y") @@ ("Z" :> "z")

UpperOf ==
    ("a" :> "A") @@ ("b" :> "B") @@ ("c" :> "C") @@ ("d" :> "D") @@ ("e" :> "E") @@ ("f" :> "F") @@ ("g" :> "G") @@ ("h" :> "H") @@ ("i" :> "I") @@ ("j" :> "J") @@ ("k" :> "K") @@ ("l" :> "L") @@ ("m" :> "M") @@ ("n" :> "N") @@ ("o" :> "O") @@ ("p" :> "P") @@ ("q" :> "Q") @@ ("r" :> "R") @@ ("s" :> "S") @@ ("t" :> "T") @@ ("u" :> "U") @@ ("v" :> "V") @@ ("w" :> "W") @@ ("x" :> "X") @@ ("y" :> "Y") @@ ("z" :> "Z")

Digits == {"0", "1", "2", "3", "4", "5", "6", "7", "8", "9"}

\* \w of the re module
WordChar(c) == c \in DOMAIN LowerOf \/ c \in DOMAIN UpperOf \/ c \in Digits \/ c = "_"

\* str.lower()
lower(s) == [i \in 1..Len(s) |-> IF s[i] \in DOMAIN LowerOf THEN LowerOf[s[i]] ELSE s[i]]

Cased(c) == c \in DOMAIN LowerOf \/ c \in DOMAIN UpperOf

\* str.title(): a cased character is upper-cased when it does not follow a
\* cased character, and lower-cased when it does
title(s) ==
    [i \in 1..Len(s) |->
        IF i > 1 /\ Cased(s[i - 1])
        THEN (IF s[i] \in DOMAIN LowerOf THEN LowerOf[s[i]] ELSE s[i])
        ELSE (IF s[i] \in DOMAIN UpperOf THEN UpperOf[s[i]] ELSE s[i])]

Indices(s) == [i \in 1..Len(s) |-> i]

\* str.split(): the maximal runs of non-whitespace characters, in order
split(s) ==
    LET StartsWord(i) == s[i] \notin Whitespace /\ (i = 1 \/ s[i - 1] \in Whitespace)
        EndsWord(j) == s[j] \notin Whitespace /\ (j = Len(s) \/ s[j + 1] \in Whitespace)
        starts == SelectSeq(Indices(s), StartsWord)
        ends == SelectSeq(Indices(s), EndsWord)
    IN  [k \in 1..Len(starts) |-> SubSeq(s, starts[k], ends[k])]

Range(q) == {q[i] : i \in DOMAIN q}

\* sub in s
Contains(sub, s) ==
    \E i \in 1..(Len(s) - Len(sub) + 1) : \A k \in 1..Len(sub) : s[i + k - 1] = sub[k]

\* s.endswith(suffix)
endswith(s, suffix) ==
    /\ Len(suffix) <= Len(s)
    /\ \A k \in 1..Len(suffix) : s[Len(s) - Len(suffix) + k] = suffix[k]

\* s.strip()
strip(s) ==
    LET inked == {i \in 1..Len(s) : s[i] \notin Whitespace}
    IN  IF inked = {} THEN <<>>
        ELSE SubSeq(s, CHOOSE i \in inked : \A j \in inked : i <= j,
                       CHOOSE i \in inked : \A j \in inked : i >= j)

-----------------------------------------------------------------------------
(* utils.py: clean_text *)

\* re.sub(r'\s+', ' ', text): a run of whitespace becomes one space
collapse_whitespace(s) ==
    LET StartsRun(i) == s[i] \notin Whitespace \/ i = 1 \/ s[i - 1] \notin Whitespace
        kept == SelectSeq(Indices(s), StartsRun)
    IN  [k \in 1..Len(kept) |-> IF s[kept[k]] \in Whitespace THEN " " ELSE s[kept[k]]]

\* re.sub(r'[^\w\s.,!?-]', '', text)
Kept(c) == WordChar(c) \/ c \in Whitespace \/ c \in {".", ",", "!", "?", "-"}

remove_special(s) == SelectSeq(s, Kept)

\* re.sub(r'\.{2,}', '.', text): a run of periods becomes one period
collapse_periods(s) ==
    LET StartsRun(i) == s[i] # "." \/ i = 1 \/ s[i - 1] # "."
        kept == SelectSeq(Indices(s), StartsRun)
    IN  [k \in 1..Len(kept) |-> s[kept[k]]]

\* clean_text(text): text is a Str or None; the result is a sequence of characters
clean_text(t) ==
    IF t.none \/ t.chars = <<>> THEN <<>>
    ELSE strip(collapse_periods(remove_special(collapse_whitespace(t.chars))))

-----------------------------------------------------------------------------
(* ml_models.py: ResumeMatcherModel *)

common_skills ==
    << <<"p","y","t","h","o","n">>,
       <<"j","a","v","a">>,
       <<"j","a","v","a","s","c","r","i","p","t">>,
       <<"c","+","+">>,
       <<"s","q","l">>,
       <<"h","t","m","l">>,
       <<"c","s","s">>,
       <<"r","e","a","c","t">>,
       <<"a","n","g","u","l","a","r">>,
       <<"v","u","e">>,
       <<"n","o","d","e">>,
       <<"d","j","a","n","g","o">>,
       <<"f","l","a","s","k">>,
       <<"s","p","r","i","n","g">>,
       <<"a","w","s">>,
       <<"a","z","u","r","e">>,
       <<"g","c","p">>,
       <<"d","o","c","k","e","r">>,
       <<"k","u","b","e","r","n","e","t","e","s">>,
       <<"g","i","t">>,
       <<"m","a","c","h","i","n","e"," ","l","e","a","r","n","i","n","g">>,
       <<"d","e","e","p"," ","l","e","a","r","n","i","n","g">>,
       <<"n","l","p">>,
       <<"c","o","m","p","u","t","e","r"," ","v","i","s","i","o","n">>,
       <<"d","a","t","a"," ","a","n","a","l","y","s","i","s">>,
       <<"s","t","a","t","i","s","t","i","c","s">>,
       <<"e","x","c","e","l">>,
       <<"t","a","b","l","e","a","u">>,
       <<"p","o","w","e","r"," ","b","i">>,
       <<"a","g","i","l","e">>,
       <<"s","c","r","u","m">>,
       <<"p","r","o","j","e","c","t"," ","m","a","n","a","g","e","m","e","n","t">>,
       <<"l","e","a","d","e","r","s","h","i","p">>,
       <<"c","o","m","m","u","n","i","c","a","t","i","o","n">>,
       <<"t","e","a","m","w","o","r","k">>,
       <<"p","r","o","b","l","e","m"," ","s","o","l","v","i","n","g">> >>

Top == 10

\* round(x, ndigits) of the float num / den, as a decimal; at an exact tie
\* either neighbour
round_digits(num, den, ndigits) ==
    LET scaled == num * Pow10(ndigits)
        fl == scaled \div den
        rem == scaled % den
    IN  IF 2 * rem > den THEN {Dec(fl + 1, ndigits)}
        ELSE IF 2 * rem < den THEN {Dec(fl, ndigits)}
        ELSE {Dec(fl, ndigits), Dec(fl + 1, ndigits)}

\* x >= n, for a decimal x and an integer n
DecGE(x, n) == x.num >= n * Pow10(x.scale)

\* (variant: the cap min(score * 4, 95) is left out)
SimpleMatchUncapped(resume, jd) ==
    LET resume_words == Range(split(lower(resume)))
        jd_words == Range(split(lower(jd)))
        common_words == resume_words \cap jd_words
        num == Cardinality(common_words) * 100 * 4
        den == Cardinality(jd_words)
    IN  IF jd_words = {} THEN {Dec(0, 0)}
        ELSE round_digits(num, den, 1)

\* _simple_match: the scores it can return (str arguments)
simple_match(resume, jd) ==
    LET resume_words == Range(split(lower(resume)))
        jd_words == Range(split(lower(jd)))
        common_words == resume_words \cap jd_words
        \* (len(common_words) / len(jd_words)) * 100 * 4, as a fraction
        num == Cardinality(common_words) * 100 * 4
        den == Cardinality(jd_words)
    IN  IF jd_words = {} THEN {Dec(0, 0)}
        ELSE IF num >= 95 * den THEN round_digits(95, 1, 1)
        ELSE round_digits(num, den, 1)

Take(q, n) == SubSeq(q, 1, Min(Len(q), n))

\* (variant: the lists are returned whole, without [:10])
ExtractSkillsUncut(resume, jd) ==
    LET resume_lower == lower(resume)
        jd_lower == lower(jd)
        IsMatched(skill) == Contains(skill, jd_lower) /\ Contains(skill, resume_lower)
        IsMissing(skill) == Contains(skill, jd_lower) /\ ~Contains(skill, resume_lower)
        matched == SelectSeq(common_skills, IsMatched)
        missing == SelectSeq(common_skills, IsMissing)
    IN  [ matched |-> [i \in 1..Len(matched) |-> title(matched[i])],
          missing |-> [i \in 1..Len(missing) |-> title(missing[i])] ]

\* (variant: the two texts are taken in the other order)
ExtractSkillsSwapped(resume, jd) ==
    LET resume_lower == lower(jd)
        jd_lower == lower(resume)
        IsMatched(skill) == Contains(skill, jd_lower) /\ Contains(skill, resume_lower)
        IsMissing(skill) == Contains(skill, jd_lower) /\ ~Contains(skill, resume_lower)
        matched == SelectSeq(common_skills, IsMatched)
        missing == SelectSeq(common_skills, IsMissing)
    IN  [ matched |-> [i \in 1..Min(Len(matched), Top) |-> title(matched[i])],
          missing |-> [i \in 1..Min(Len(missing), Top) |-> title(missing[i])] ]

\* _extract_skills (str arguments)
extract_skills(resume, jd) ==
    LET resume_lower == lower(resume)
        jd_lower == lower(jd)
        IsMatched(skill) == Contains(skill, jd_lower) /\ Contains(skill, resume_lower)
        IsMissing(skill) == Contains(skill, jd_lower) /\ ~Contains(skill, resume_lower)
        matched == SelectSeq(common_skills, IsMatched)
        missing == SelectSeq(common_skills, IsMissing)
    IN  [ matched |-> [i \in 1..Min(Len(matched), Top) |-> title(matched[i])],
          missing |-> [i \in 1..Min(Len(missing), Top) |-> title(missing[i])] ]

score_category(score) ==
    IF DecGE(score, 80) THEN "Excellent"
    ELSE IF DecGE(score, 60) THEN "Good"
    ELSE IF DecGE(score, 40) THEN "Average"
    ELSE "Poor"

score_priority(score) ==
    IF DecGE(score, 80) THEN "High"
    ELSE IF DecGE(score, 60) THEN "Medium"
    ELSE IF DecGE(score, 40) THEN "Low"
    ELSE "Very Low"

generate_recommendation(score, category) ==
    CASE category = "Excellent" ->
           "Strong candidate! Recommend immediate interview. Skills and experience align very well with requirements."
      [] category = "Good" ->
           "Qualified candidate. Schedule interview to assess cultural fit and specific expertise."
      [] category = "Average" ->
           "Potential candidate. May require additional training or development in key areas."
      [] category = "Poor" ->
           "Skills gap identified. Consider only if candidate shows strong potential in other areas."
      [] OTHER -> "Review candidate profile for detailed assessment."

match_result(score, skills) ==
    [ raised |-> FALSE,
      score |-> score,
      category |-> score_category(score),
      priority |-> score_priority(score),
      matched_skills |-> skills.matched,
      missing_skills |-> skills.missing,
      recommendation |-> generate_recommendation(score, score_category(score)) ]

Raised(exception) == [raised |-> TRUE, error |-> exception]

\* ResumeMatcherModel.match: the outcomes for arguments that are a Str or
\* None; None has no lower(), which raises AttributeError
match(resume, jd) ==
    IF resume.none \/ jd.none THEN {Raised("AttributeError")}
    ELSE { match_result(s, extract_skills(resume.chars, jd.chars)) :
             s \in simple_match(resume.chars, jd.chars) }

-----------------------------------------------------------------------------
(* The calls of the core functions: the arguments are drawn from bounded  *)
(* sets in the initial state, and one action applies the function.        *)

\* the longest text given to ResumeMatcherModel.match, in words
MaxWords == 14

\* the longest text given to clean_text, in characters
MaxTextLen == 5

ExperienceLevels == DOMAIN experience_multipliers \cup {"Lead"}

JobTypes == DOMAIN job_type_multipliers \cup {"Internship"}

CompanySizes == DOMAIN company_size_multipliers \cup {"100-500", "10000+"}

Salaries == {49999, 50000, 100000, 100001, 150000, 200000}

SkillLists == {[i \in 1..n |-> "skill"] : n \in 0..MaxSkills}

\* values of random.uniform(0.9, 1.1), in hundredths
Jitters == {90, 99, 100, 101, 110}

FullFeatures ==
    [ experience_level : ExperienceLevels,
      job_type : JobTypes,
      company_size : CompanySizes,
      remote_option : BOOLEAN,
      max_salary : Salaries,
      skills : SkillLists ]

\* dicts with keys missing: predict reads every key with a default
SparseBase ==
    [ experience_level |-> "Senior", job_type |-> "Part-time", company_size |-> "5000+",
      remote_option |-> TRUE, max_salary |-> 200000, skills |-> [i \in 1..MaxSkills |-> "skill"] ]

SparseFeatures == {[k \in K |-> SparseBase[k]] : K \in (SUBSET DOMAIN SparseBase) \ {DOMAIN SparseBase}}

Corpus ==
    << <<"S","e","n","i","o","r">>,
       <<"P","y","t","h","o","n">>,
       <<"d","e","v","e","l","o","p","e","r">>,
       <<"m","a","c","h","i","n","e">>,
       <<"l","e","a","r","n","i","n","g">>,
       <<"n","l","p">>,
       <<"s","q","l">>,
       <<"j","a","v","a","s","c","r","i","p","t">>,
       <<"d","o","c","k","e","r">>,
       <<"g","i","t">>,
       <<"a","w","s">>,
       <<"r","e","a","c","t">>,
       <<"h","t","m","l">>,
       <<"c","s","s">>,
       <<"c","+","+">>,
       <<"a","g","i","l","e">> >>

RECURSIVE Join(_)
Join(words) ==
    IF words = <<>> THEN <<>>
    ELSE IF Len(words) = 1 THEN Head(words)
    ELSE Head(words) \o <<" ">> \o Join(Tail(words))

\* the words a..b of the corpus, joined by single spaces
Excerpt(a, b) == Str(Join(SubSeq(Corpus, a, b)))

\* a text of whitespace only
Blank == Str(<<" ", "\n">>)

JdTexts ==
    {None, Blank} \cup
    UNION { {Excerpt(a, b) : b \in {c \in 0..Len(Corpus) : c - a + 1 <= MaxWords}} :
            a \in 1..Len(Corpus) }

ResumeTexts == {None, Blank} \cup {Excerpt(1, b) : b \in 0..Min(MaxWords, Len(Corpus))}

CleanAlphabet == {"a", " ", "\t", ".", "@"}

CleanTexts == {None} \cup {Str(s) : s \in UNION {[1..n -> CleanAlphabet] : n \in 0..MaxTextLen}}

NoResult == [raised |-> FALSE]

EmptyStore == [jobs |-> <<>>, resumes |-> <<>>, predictions |-> <<>>]

NoResponse == [status |-> 0]

NoRequest == [op |-> "none"]

AppIdle ==
    /\ dashboard_data = EmptyStore
    /\ request = NoRequest
    /\ response = NoResponse
    /\ requests = 0
    /\ ok_predicts = 0
    /\ ok_matches = 0
    /\ installed = TRUE

CoreIdle ==
    /\ pc = "done"
    /\ op = "none"
    /\ features = <<>>
    /\ jitter = 100
    /\ resume_text = None
    /\ jd_text = None
    /\ text = None
    /\ result = NoResult

InitPredict ==
    /\ pc = "call"
    /\ op = "predict"
    /\ features \in FullFeatures \cup SparseFeatures
    /\ jitter \in Jitters
    /\ resume_text = None
    /\ jd_text = None
    /\ text = None
    /\ result = NoResult
    /\ AppIdle

InitMatch ==
    /\ pc = "call"
    /\ op = "match"
    /\ features = <<>>
    /\ jitter = 100
    /\ resume_text \in ResumeTexts
    /\ jd_text \in JdTexts
    /\ text = None
    /\ result = NoResult
    /\ AppIdle

InitClean ==
    /\ pc = "call"
    /\ op = "clean"
    /\ features = <<>>
    /\ jitter = 100
    /\ resume_text = None
    /\ jd_text = None
    /\ text \in CleanTexts
    /\ result = NoResult
    /\ AppIdle

\* result = app_predictor.predict(features)
DoPredict ==
    /\ pc = "call"
    /\ op = "predict"
    /\ result' \in predict(features, jitter)
    /\ pc' = "done"
    /\ UNCHANGED <<op, features, jitter, resume_text, jd_text, text>>
    /\ UNCHANGED appVars

\* result = resume_matcher.match(resume_text, jd_text)
DoMatch ==
    /\ pc = "call"
    /\ op = "match"
    /\ result' \in match(resume_text, jd_text)
    /\ pc' = "done"
    /\ UNCHANGED <<op, features, jitter, resume_text, jd_text, text>>
    /\ UNCHANGED appVars

\* result = clean_text(text)
DoClean ==
    /\ pc = "call"
    /\ op = "clean"
    /\ result' = Str(clean_text(text))
    /\ pc' = "done"
    /\ UNCHANGED <<op, features, jitter, resume_text, jd_text, text>>
    /\ UNCHANGED appVars

NextPredict == DoPredict

NextMatch == DoMatch

NextClean == DoClean

NextCore == DoPredict \/ DoMatch \/ DoClean

SpecPredict == InitPredict /\ [][NextPredict]_vars

SpecMatch == InitMatch /\ [][NextMatch]_vars

SpecClean == InitClean /\ [][NextClean]_vars

SpecCore == (InitPredict \/ InitMatch \/ InitClean) /\ [][NextCore]_vars

-----------------------------------------------------------------------------
(* utils.py: text extraction.  An uploaded file has a name, the format its *)
(* content really has ("pdf", "docx", or "other" for anything the readers  *)
(* cannot open) and the texts of its pages or paragraphs.                  *)

NoFile == [present |-> FALSE, filename |-> <<>>, format |-> "none", parts |-> <<>>]

File(name, format, parts) ==
    [present |-> TRUE, filename |-> name, format |-> format, parts |-> parts]

PdfSuffix ==
    <<".","p","d","f">>

DocxSuffix ==
    <<".","d","o","c","x">>

DocSuffix ==
    <<".","d","o","c">>

CvPdf ==
    <<"C","V",".","P","D","F">>

CvDoc ==
    <<"c","v",".","d","o","c">>

CvTxt ==
    <<"c","v",".","t","x","t">>

JdPdf ==
    <<"j","d",".","p","d","f">>

JdTxt ==
    <<"j","d",".","t","x","t">>

PdfErrorPrefix ==
    <<"E","r","r","o","r"," ","e","x","t","r","a","c","t","i","n","g"," ","P","D","F",
      ":"," ">>

DocxErrorPrefix ==
    <<"E","r","r","o","r"," ","e","x","t","r","a","c","t","i","n","g"," ","D","O","C",
      "X",":"," ">>

\* str(e) of the exception PyPDF2 raises on a file that is no PDF
PdfReaderError ==
    <<"E","O","F"," ","m","a","r","k","e","r"," ","n","o","t"," ","f","o","u","n","d">>

\* str(e) of the exception python-docx raises on a file that is no DOCX
DocxReaderError ==
    <<"F","i","l","e"," ","i","s"," ","n","o","t"," ","a"," ","z","i","p"," ","f","i",
      "l","e">>

PdfImportFallback ==
    <<"P","D","F"," ","e","x","t","r","a","c","t","i","o","n"," ","r","e","q","u","i",
      "r","e","s"," ","P","y","P","D","F","2","."," ","P","l","e","a","s","e"," ","i",
      "n","s","t","a","l","l",":"," ","p","i","p"," ","i","n","s","t","a","l","l"," ",
      "P","y","P","D","F","2">>

DocxImportFallback ==
    <<"D","O","C","X"," ","e","x","t","r","a","c","t","i","o","n"," ","r","e","q","u",
      "i","r","e","s"," ","p","y","t","h","o","n","-","d","o","c","x","."," ","P","l",
      "e","a","s","e"," ","i","n","s","t","a","l","l",":"," ","p","i","p"," ","i","n",
      "s","t","a","l","l"," ","p","y","t","h","o","n","-","d","o","c","x">>

ResumePage1 ==
    <<"S","e","n","i","o","r"," ","P","y","t","h","o","n"," ","d","e","v","e","l","o",
      "p","e","r">>

ResumePage2 ==
    <<"S","Q","L",","," ","D","o","c","k","e","r"," ","&"," ","g","i","t",".",".",".">>

JdPage1 ==
    <<"P","y","t","h","o","n"," ","a","n","d"," ","s","q","l"," ","e","x","p","e","r",
      "t">>

FormText ==
    <<"l","o","o","k","i","n","g"," ","f","o","r"," ","a"," ","P","y","t","h","o","n",
      " ","d","e","v","e","l","o","p","e","r">>

\* text += part + '\n', for every page or paragraph
RECURSIVE concat_parts(_)
concat_parts(parts) ==
    IF parts = <<>> THEN <<>>
    ELSE Head(parts) \o <<"\n">> \o concat_parts(Tail(parts))

\* extract_text_from_pdf: every exception is caught and its message is
\* returned as the text
extract_text_from_pdf(file, libs) ==
    IF ~libs THEN PdfImportFallback
    ELSE IF file.format # "pdf" THEN PdfErrorPrefix \o PdfReaderError
    ELSE concat_parts(file.parts)

\* extract_text_from_docx
extract_text_from_docx(file, libs) ==
    IF ~libs THEN DocxImportFallback
    ELSE IF file.format # "docx" THEN DocxErrorPrefix \o DocxReaderError
    ELSE concat_parts(file.parts)

-----------------------------------------------------------------------------
(* app.py: the request handlers.  A handler maps the store and a request   *)
(* to the set of its outcomes [store, response].                           *)

\* how many requests a run of the model handles
MaxRequests == 2

\* topCandidates: sorted(...)[:10]
TopCandidates == 10

\* 'jobs': dashboard_data['jobs'][-20:]
RecentJobs == 20

\* a JSON number, or the string 'abc', which float() cannot convert
Num(n) == [valid |-> TRUE, n |-> n]

NotANumber == [valid |-> FALSE, n |-> 0]

\* request.json: a JSON object, or null
Json(body) == [null |-> FALSE, body |-> body]

JsonNull == [null |-> TRUE, body |-> <<>>]

\* jsonify({'success': False, 'error': ...}), 400
Reject(store, error) ==
    [store |-> store, response |-> [status |-> 400, success |-> FALSE, error |-> error]]

\* the features dict built from the request's JSON object
parse_features(body) ==
    [ job_title |-> DictGet(body, "jobTitle", ""),
      skills |-> DictGet(body, "skills", <<>>),
      experience_level |-> DictGet(body, "experienceLevel", "Mid"),
      min_salary |-> DictGet(body, "minSalary", Num(0)).n,
      max_salary |-> DictGet(body, "maxSalary", Num(0)).n,
      job_type |-> DictGet(body, "jobType", "Full-time"),
      remote_option |-> DictGet(body, "remoteOption", FALSE),
      company_size |-> DictGet(body, "companySize", "100-500"),
      industry |-> DictGet(body, "industry", "Technology") ]

\* float(data.get(key, 0)) raises for a string that is no number
FloatFails(body) ==
    ~DictGet(body, "minSalary", Num(0)).valid \/ ~DictGet(body, "maxSalary", Num(0)).valid

\* dashboard_data['jobs'].append({...})
store_job(store, feats, p, now) ==
    [store EXCEPT !.jobs = Append(@,
        [ title |-> feats.job_title,
          predicted_applications |-> p.count,
          category |-> p.category,
          timestamp |-> now ])]

\* (variant: the record is stored before the salaries are converted)
PredictStoresFirst(store, data, u, now) ==
    IF data.null THEN {Reject(store, "'NoneType' object has no attribute 'get'")}
    ELSE
    LET feats == parse_features(data.body)
    IN  { IF FloatFails(data.body)
          THEN Reject(store_job(store, feats, p, now), "could not convert string to float: 'abc'")
          ELSE [ store |-> store_job(store, feats, p, now),
                 response |-> [status |-> 200, success |-> TRUE, prediction |-> p] ] :
          p \in predict(feats, u) }

\* predict_applications; now is datetime.now()
predict_applications(store, data, u, now) ==
    IF data.null THEN {Reject(store, "'NoneType' object has no attribute 'get'")}
    ELSE IF FloatFails(data.body)
    THEN {Reject(store, "could not convert string to float: 'abc'")}
    ELSE
    LET feats == parse_features(data.body)
    IN  { [ store |-> store_job(store, feats, p, now),
            response |-> [status |-> 200, success |-> TRUE, prediction |-> p] ] :
          p \in predict(feats, u) }

Supported(filename) ==
    endswith(filename, PdfSuffix) \/ endswith(filename, DocxSuffix) \/ endswith(filename, DocSuffix)

\* the text read from a file whose lower-cased name is supported
extract(file, libs) ==
    IF endswith(lower(file.filename), PdfSuffix)
    THEN extract_text_from_pdf(file, libs)
    ELSE extract_text_from_docx(file, libs)

\* match_resume; form_text is request.form.get('jobDescriptionText', '')
match_resume(store, resume_file, jd_file, form_text, libs, now) ==
    IF ~resume_file.present THEN {Reject(store, "Resume file is required.")}
    ELSE IF ~Supported(lower(resume_file.filename))
    THEN {Reject(store, "Unsupported resume format. Please upload PDF or DOC/DOCX.")}
    ELSE
    LET resume_raw == extract(resume_file, libs)
        \* a job-description file of another format is skipped, and the
        \* form's text stays
        jd_raw ==
            IF jd_file.present /\ Supported(lower(jd_file.filename))
            THEN extract(jd_file, libs)
            ELSE form_text
    IN  IF jd_raw = <<>> THEN {Reject(store, "Job description is required.")}
        ELSE
        LET resume_clean == clean_text(Str(resume_raw))
            jd_clean == clean_text(Str(jd_raw))
        IN  { IF m.raised THEN Reject(store, m.error)
              ELSE [ store |-> [store EXCEPT !.resumes = Append(@,
                                  [ score |-> m.score,
                                    category |-> m.category,
                                    matched_skills |-> m.matched_skills,
                                    timestamp |-> now ])],
                     response |-> [status |-> 200, success |-> TRUE, result |-> m] ] :
              m \in match(Str(resume_clean), Str(jd_clean)) }

\* a <= b, for decimals
DecLE(a, b) == a.num * Pow10(b.scale) <= b.num * Pow10(a.scale)

\* sorted(resumes, key=score, reverse=True): stable, so equal scores keep
\* their order
RECURSIVE InsertDesc(_, _)
InsertDesc(q, r) ==
    IF q = <<>> THEN <<r>>
    ELSE IF DecLE(r.score, Head(q).score) THEN <<Head(q)>> \o InsertDesc(Tail(q), r)
    ELSE <<r>> \o q

RECURSIVE sorted_desc(_)
sorted_desc(q) ==
    IF q = <<>> THEN <<>>
    ELSE InsertDesc(sorted_desc(SubSeq(q, 1, Len(q) - 1)), q[Len(q)])

RECURSIVE sum_applications(_)
sum_applications(jobs) ==
    IF jobs = <<>> THEN 0 ELSE Head(jobs).predicted_applications + sum_applications(Tail(jobs))

RECURSIVE max_score(_)
max_score(resumes) ==
    IF Len(resumes) = 1 THEN Head(resumes).score
    ELSE LET m == max_score(Tail(resumes))
         IN  IF DecLE(m, Head(resumes).score) THEN Head(resumes).score ELSE m

LastN(q, n) == SubSeq(q, Len(q) - Min(Len(q), n) + 1, Len(q))

\* get_dashboard_data: the responses it can send
get_dashboard_data(store) ==
    LET total_jobs == Len(store.jobs)
        total_resumes == Len(store.resumes)
        avgs == IF store.jobs # <<>>
                THEN round_digits(sum_applications(store.jobs), total_jobs, 1)
                ELSE {Dec(0, 0)}
        top_match_score == IF store.resumes # <<>> THEN max_score(store.resumes) ELSE Dec(0, 0)
        tops == round_digits(top_match_score.num, Pow10(top_match_score.scale), 1)
    IN  { [ status |-> 200,
            success |-> TRUE,
            data |-> [ summary |-> [ totalJobs |-> total_jobs,
                                     avgPredictedApplications |-> avg,
                                     totalResumes |-> total_resumes,
                                     topMatchScore |-> top ],
                       jobs |-> LastN(store.jobs, RecentJobs),
                       topCandidates |-> Take(sorted_desc(store.resumes), TopCandidates) ] ] :
          avg \in avgs, top \in tops }

-----------------------------------------------------------------------------
(* The service: requests arrive one at a time, in any order *)

PredictBodies ==
    { JsonNull,
      Json(<<>>),
      Json([jobTitle |-> "Engineer", experienceLevel |-> "Entry", companySize |-> "5000+",
            remoteOption |-> TRUE, maxSalary |-> Num(200000)]),
      Json([jobTitle |-> "Analyst", maxSalary |-> NotANumber]),
      Json([jobTitle |-> "Intern", experienceLevel |-> "Senior", jobType |-> "Part-time",
            minSalary |-> Num(30000), maxSalary |-> Num(60000),
            skills |-> <<"python", "sql">>]) }

AppJitters == {100, 110}

ResumeFiles ==
    { NoFile,
      File(CvPdf, "pdf", <<ResumePage1, ResumePage2>>),
      File(CvPdf, "other", <<>>),
      File(CvDoc, "docx", <<ResumePage1>>),
      File(CvTxt, "other", <<ResumePage1>>) }

JdFiles ==
    { NoFile,
      File(JdPdf, "pdf", <<JdPage1>>),
      File(JdPdf, "other", <<>>),
      File(JdTxt, "other", <<JdPage1>>) }

FormTexts == {<<>>, FormText}

InitApp ==
    /\ CoreIdle
    /\ dashboard_data = EmptyStore
    /\ request = NoRequest
    /\ response = NoResponse
    /\ requests = 0
    /\ ok_predicts = 0
    /\ ok_matches = 0
    /\ installed \in BOOLEAN

Good(outcome) == IF outcome.response.success THEN 1 ELSE 0

\* POST /api/predict-applications
PredictApplications ==
    /\ requests < MaxRequests
    /\ \E data \in PredictBodies, u \in AppJitters :
         \E o \in predict_applications(dashboard_data, data, u, requests + 1) :
            /\ request' = [op |-> "predict", data |-> data]
            /\ dashboard_data' = o.store
            /\ response' = o.response
            /\ ok_predicts' = ok_predicts + Good(o)
    /\ requests' = requests + 1
    /\ UNCHANGED <<ok_matches, installed>>
    /\ UNCHANGED coreVars

\* POST /api/match-resume
MatchResume ==
    /\ requests < MaxRequests
    /\ \E resume_file \in ResumeFiles, jd_file \in JdFiles, form_text \in FormTexts :
         \E o \in match_resume(dashboard_data, resume_file, jd_file, form_text,
                               installed, requests + 1) :
            /\ request' = [op |-> "match", resume_file |-> resume_file,
                           jd_file |-> jd_file, form_text |-> form_text]
            /\ dashboard_data' = o.store
            /\ response' = o.response
            /\ ok_matches' = ok_matches + Good(o)
    /\ requests' = requests + 1
    /\ UNCHANGED <<ok_predicts, installed>>
    /\ UNCHANGED coreVars

\* GET /api/dashboard-data
GetDashboardData ==
    /\ requests < MaxRequests
    /\ request' = [op |-> "dashboard"]
    /\ response' \in get_dashboard_data(dashboard_data)
    /\ requests' = requests + 1
    /\ UNCHANGED <<dashboard_data, ok_predicts, ok_matches, installed>>
    /\ UNCHANGED coreVars

Next == PredictApplications \/ MatchResume \/ GetDashboardData

Spec == InitApp /\ [][Next]_vars

-----------------------------------------------------------------------------
(* Properties *)

\* the largest count the tier comparison ranges over
MaxCount == 600

Called(f) == pc = "done" /\ op = f

Returned(f) == Called(f) /\ ~(op = "match" /\ result.raised)

RemoveAt(q, k) == SubSeq(q, 1, k - 1) \o SubSeq(q, k + 1, Len(q))

Zero == Dec(0, 0)

\* the indices of the catalog skills that are substrings of lower-cased t
SkillsIn(t) == {k \in DOMAIN common_skills : Contains(common_skills[k], lower(t))}

\* the catalog index of a title-cased entry (0 when it is none)
CatalogIndex(entry) ==
    IF \E k \in DOMAIN common_skills : title(common_skills[k]) = entry
    THEN CHOOSE k \in DOMAIN common_skills : title(common_skills[k]) = entry
    ELSE 0

Increasing(q) == \A i, j \in DOMAIN q : i < j => CatalogIndex(q[i]) < CatalogIndex(q[j])

NoTokens(t) == split(lower(t)) = <<>>

(* C1 *)
C1Input ==
    /\ features = [ experience_level |-> "Entry", job_type |-> "Full-time",
                    company_size |-> "5000+", remote_option |-> TRUE,
                    max_salary |-> 200000, skills |-> <<>> ]
    /\ jitter = 100

\* C1, as stated: predict for Entry, Full-time, "5000+", remote, max_salary
\* 200000, no skills and jitter 1.0 returns count 579, High, Easy.
C1_Count579 ==
    (Called("predict") /\ C1Input) =>
        result.count = 579 /\ result.category = "High" /\ result.difficulty = "Easy"

\* C1, amended: for those inputs predict returns
\* round(100 x 1.5 x 1.2 x 1.5 x 1.3 x 1.2 x 1.1) = round(463.32) = 463,
\* category High, difficulty Easy.
C1_Count463 ==
    (Called("predict") /\ C1Input) =>
        result.count = 463 /\ result.category = "High" /\ result.difficulty = "Easy"

C1_Witness == Called("predict") /\ C1Input /\ result.count = 463

(* C2 *)
C2Input ==
    /\ DOMAIN features = DOMAIN SparseBase
    /\ features.experience_level = "Mid"
    /\ features.job_type = "Full-time"
    /\ features.company_size \notin DOMAIN company_size_multipliers
    /\ features.remote_option = FALSE
    /\ features.max_salary >= 50000 /\ features.max_salary <= 100000
    /\ Len(features.skills) >= 2 /\ Len(features.skills) <= 5
    /\ jitter = 100

\* C2, as stated: predict for Mid, Full-time, a company size outside the
\* table, not remote, max_salary in [50000, 100000], 2 to 5 skills and
\* jitter 1.0 returns count 100, Medium, Medium.
C2_Count100 ==
    (Called("predict") /\ C2Input) =>
        result.count = 100 /\ result.category = "Medium" /\ result.difficulty = "Medium"

\* C2, amended: for those inputs predict returns count 120 (the Full-time
\* multiplier 1.2 applies), category Medium, difficulty Medium.
C2_Count120 ==
    (Called("predict") /\ C2Input) =>
        result.count = 120 /\ result.category = "Medium" /\ result.difficulty = "Medium"

C2_Witness ==
    /\ Called("predict") /\ C2Input
    /\ features.company_size = "100-500" /\ features.max_salary = 100000
    /\ Len(features.skills) = 5
    /\ result.count = 120

(* C3 *)
\* C3: clean_text is idempotent: cleaning a cleaned text changes nothing.
C3_Idempotent == Called("clean") => clean_text(result) = result.chars

(* C4 *)
\* C4: the score match returns lies in [0, 95] and has at most one decimal
\* digit, and it is 0 when the job description has no word tokens.
C4_ScoreRange ==
    Returned("match") =>
        /\ result.score.num >= 0
        /\ DecLE(result.score, Dec(95, 0))
        /\ result.score.scale <= 1
        /\ NoTokens(jd_text.chars) => result.score = Zero

C4_Witness ==
    /\ Returned("match")
    /\ Cardinality(Range(split(lower(jd_text.chars)))) = 7
    /\ result.score = Dec(571, 1)

(* C5 *)
\* C5: matched_skills and missing_skills have at most 10 entries each; a
\* catalog skill that is in neither text, or only in the resume, is in
\* neither list; every entry of matched_skills is a skill contained in both
\* lower-cased texts, every entry of missing_skills a skill contained in the
\* job description and not in the resume; both lists are in catalog order.
C5_SkillLists ==
    Returned("match") =>
        LET in_resume == SkillsIn(resume_text.chars)
            in_jd == SkillsIn(jd_text.chars)
            matched == result.matched_skills
            missing == result.missing_skills
        IN  /\ Len(matched) <= 10 /\ Len(missing) <= 10
            /\ \A k \in DOMAIN common_skills :
                  k \notin in_jd =>
                     /\ title(common_skills[k]) \notin Range(matched)
                     /\ title(common_skills[k]) \notin Range(missing)
            /\ \A i \in DOMAIN matched : CatalogIndex(matched[i]) \in in_jd \cap in_resume
            /\ \A i \in DOMAIN missing : CatalogIndex(missing[i]) \in in_jd \ in_resume
            /\ Increasing(matched) /\ Increasing(missing)

\* more than 10 skills are in both texts and the list is cut, while a skill
\* that only the resume holds is left out
C5_Witness ==
    /\ Returned("match")
    /\ Cardinality(SkillsIn(resume_text.chars) \cap SkillsIn(jd_text.chars)) > 10
    /\ Len(result.matched_skills) = 10
    /\ SkillsIn(resume_text.chars) \ SkillsIn(jd_text.chars) # {}

(* C6 *)
\* the steps of predict whose table has no entry for the value given
UnknownSteps ==
    {k \in 1..3 :
        \/ k = 1 /\ DictGet(features, "experience_level", "Mid") \notin DOMAIN experience_multipliers
        \/ k = 2 /\ DictGet(features, "job_type", "Full-time") \notin DOMAIN job_type_multipliers
        \/ k = 3 /\ DictGet(features, "company_size", "100-500") \notin DOMAIN company_size_multipliers}

\* C6: for an experience level, job type or company size outside its table
\* predict returns, and its count is the count obtained with that step left
\* out (a multiplier of exactly 1.0).
C6_NeutralFallback ==
    Called("predict") =>
        \A k \in UnknownSteps :
            /\ Factors(features, jitter)[k] = Dec(1, 0)
            /\ result.count \in
                 py_round(MulAll(Dec(base_applications, 0), RemoveAt(Factors(features, jitter), k)))

C6_Witness ==
    /\ Called("predict")
    /\ UnknownSteps = {1, 2, 3}
    /\ features.company_size = "100-500"
    /\ features.remote_option /\ jitter = 101
    /\ result.count = 131

(* C7 *)
CategoryRank(c) == CASE c = "Low" -> 0 [] c = "Medium" -> 1 [] c = "High" -> 2

DifficultyRank(d) == CASE d = "Hard" -> 0 [] d = "Medium" -> 1 [] d = "Easy" -> 2

MatchRank(c) == CASE c = "Poor" -> 0 [] c = "Average" -> 1 [] c = "Good" -> 2 [] c = "Excellent" -> 3

PriorityRank(p) == CASE p = "Very Low" -> 0 [] p = "Low" -> 1 [] p = "Medium" -> 2 [] p = "High" -> 3

\* the tiers of every count and of every score (in tenths)
CountTiers ==
    [c \in 0..MaxCount |->
        [category |-> CategoryRank(count_category(c)),
         difficulty |-> DifficultyRank(count_difficulty(c))]]

ScoreTiers ==
    [t \in 0..950 |->
        [category |-> MatchRank(score_category(Dec(t, 1))),
         priority |-> PriorityRank(score_priority(Dec(t, 1)))]]

Tenths(x) == x.num * Pow10(1 - x.scale)

\* any two counts, and any two scores, are tiered in their order
CountTiersMonotonic ==
    \A c1, c2 \in 0..MaxCount :
        c1 <= c2 => /\ CountTiers[c1].category <= CountTiers[c2].category
                    /\ CountTiers[c1].difficulty <= CountTiers[c2].difficulty

ScoreTiersMonotonic ==
    \A t1, t2 \in 0..950 :
        t1 <= t2 => /\ ScoreTiers[t1].category <= ScoreTiers[t2].category
                    /\ ScoreTiers[t1].priority <= ScoreTiers[t2].priority

\* C7: tiers are monotonic: of two counts the larger has no lower category
\* and difficulty, and of two scores the larger has no lower category and
\* priority; predict and match return the tiers of their count and score,
\* which change at counts 100 and 200 and at scores 40, 60 and 80.
C7_MonotonicTiers ==
    /\ CountTiersMonotonic
    /\ ScoreTiersMonotonic
    /\ Called("predict") =>
          LET n == result.count
              cat == CategoryRank(result.category)
              dif == DifficultyRank(result.difficulty)
          IN  /\ n \in 0..MaxCount
              /\ cat = CountTiers[n].category /\ dif = CountTiers[n].difficulty
              /\ cat = (IF n < 100 THEN 0 ELSE IF n < 200 THEN 1 ELSE 2)
              /\ dif = cat
    /\ Returned("match") =>
          LET s == Tenths(result.score)
              cat == MatchRank(result.category)
              pri == PriorityRank(result.priority)
          IN  /\ s \in 0..950
              /\ cat = ScoreTiers[s].category /\ pri = ScoreTiers[s].priority
              /\ cat = (IF s < 400 THEN 0 ELSE IF s < 600 THEN 1 ELSE IF s < 800 THEN 2 ELSE 3)
              /\ pri = cat

\* a count on a boundary
C7_Witness == Called("predict") /\ result.count = 200 /\ result.category = "High"

(* C8 *)
EmptyOrAbsent(t) == t.none \/ t.chars = <<>>

\* C8, as stated: for an empty or absent resume or job-description text
\* match does not raise and returns score 0 and empty skill lists.
C8_EmptyGivesNothing ==
    (Called("match") /\ (EmptyOrAbsent(resume_text) \/ EmptyOrAbsent(jd_text))) =>
        /\ ~result.raised
        /\ result.score = Zero
        /\ result.matched_skills = <<>>
        /\ result.missing_skills = <<>>

\* C8, amended: for texts given as strings match does not raise; an empty
\* job description gives score 0 and two empty lists; an empty resume gives
\* score 0 and an empty matched_skills, while missing_skills lists the
\* catalog skills the job description contains (the first 10); an absent
\* (None) text raises AttributeError.
C8_EmptyTexts ==
    Called("match") =>
        /\ (resume_text.none \/ jd_text.none) =>
              result.raised /\ result.error = "AttributeError"
        /\ (~resume_text.none /\ ~jd_text.none) => ~result.raised
        /\ (~resume_text.none /\ ~jd_text.none /\ jd_text.chars = <<>>) =>
              /\ result.score = Zero
              /\ result.matched_skills = <<>>
              /\ result.missing_skills = <<>>
        /\ (~resume_text.none /\ ~jd_text.none /\ resume_text.chars = <<>>) =>
              /\ result.score = Zero
              /\ result.matched_skills = <<>>
              /\ Len(result.missing_skills) = Min(10, Cardinality(SkillsIn(jd_text.chars)))
              /\ \A i \in DOMAIN result.missing_skills :
                    LET k == CatalogIndex(result.missing_skills[i])
                    IN  /\ k \in SkillsIn(jd_text.chars)
                        /\ Cardinality({j \in SkillsIn(jd_text.chars) : j < k}) = i - 1

C8_Witness ==
    /\ Called("match")
    /\ resume_text = Str(<<>>)
    /\ ~jd_text.none
    /\ ~result.raised
    /\ result.score = Zero
    /\ Len(result.missing_skills) = 3

(* C9 *)
\* a file whose name is of no supported format, or whose content the reader
\* chosen by its name cannot open
BadUpload(file) ==
    /\ file.present
    /\ \/ ~Supported(lower(file.filename))
       \/ endswith(lower(file.filename), PdfSuffix) /\ file.format # "pdf"
       \/ ~endswith(lower(file.filename), PdfSuffix) /\ file.format # "docx"

\* C9: a match-resume request with a malformed or unsupported resume or
\* job-description file is answered with an error response, and the store
\* is left as it was.
C9_BadUploadRejected ==
    [][ (request'.op = "match"
           /\ (BadUpload(request'.resume_file) \/ BadUpload(request'.jd_file))) =>
        /\ response'.status = 400
        /\ ~response'.success
        /\ dashboard_data' = dashboard_data ]_vars

(* C10 *)
IsAppend(q, q2) == Len(q2) = Len(q) + 1 /\ SubSeq(q2, 1, Len(q)) = q

Accounted ==
    /\ Len(dashboard_data.jobs) = ok_predicts
    /\ Len(dashboard_data.resumes) = ok_matches
    /\ request.op = "dashboard" =>
          /\ response.data.summary.totalJobs = ok_predicts
          /\ response.data.summary.totalResumes = ok_matches

Handled ==
    /\ (request'.op = "predict" /\ response'.success) =>
          /\ IsAppend(dashboard_data.jobs, dashboard_data'.jobs)
          /\ dashboard_data'.resumes = dashboard_data.resumes
          /\ ok_predicts' = ok_predicts + 1
    /\ (request'.op = "match" /\ response'.success) =>
          /\ IsAppend(dashboard_data.resumes, dashboard_data'.resumes)
          /\ dashboard_data'.jobs = dashboard_data.jobs
          /\ ok_matches' = ok_matches + 1
    /\ (request'.op = "dashboard" \/ ~response'.success) =>
          /\ dashboard_data' = dashboard_data
          /\ ok_predicts' = ok_predicts /\ ok_matches' = ok_matches
    /\ dashboard_data'.predictions = dashboard_data.predictions

\* C10: the store is append-only and accounts for the successes: a
\* successful predict request appends one record to 'jobs' only, a
\* successful match request one record to 'resumes' only, an error or a
\* dashboard request changes nothing, and the totals that dashboard-data
\* reports are the numbers of successful predict and match requests.
C10_StoreAccounting == [](Accounted) /\ [][Handled]_vars

C10_Witness ==
    /\ request.op = "dashboard"
    /\ ok_predicts = 1
    /\ response.data.summary.totalJobs = 1
    /\ response.data.summary.totalResumes = 0

====
